---- MODULE Spec2Model ----
(***************************************************************************)
(* A model of src/discord/DiscordUtil.ts of mx-puppet-discord: the         *)
(* outbound delivery strategy (sendToDiscord), the channel resolver        *)
(* (getDiscordChan, getUserById) and the presence translation              *)
(* (updatePresence).                                                       *)
(*                                                                         *)
(* Text is a sequence of tokens: a token is one character where the code   *)
(* looks at characters (escaping, prefixes), and a fixed piece of a        *)
(* template literal otherwise.  An absent value (null / undefined) is the  *)
(* one-token text Null, so that every text has the same shape.             *)
(***************************************************************************)
EXTENDS Integers, Sequences, FiniteSets, TLC

\* ------------------------------------------------------------------ bounds
NCalls == 2
MaxHooks == 3
MaxActivities == 2
MaxGuilds == 2
MaxChannels == 3

\* ------------------------------------------------------------------- state
\* sendToDiscord
VARIABLES
    pc,         \* pc[c]: where call c of sendToDiscord stands
    args,       \* args[c]: (chan, msg, asUser, replyEmbed) of call c
    hook,       \* hook[c]: index of the webhook call c holds, 0 for null
    warns,      \* warns[c]: number of log.warn lines of call c
    lookups,    \* lookups[c]: numbers of fetchWebhooks and createWebhook calls of call c
    tried,      \* tried[c]: the send operations call c has invoked, in order
    out,        \* out[c]: what the last send of call c handed to the remote network
    result,     \* result[c]: "pending", "ok" (a message returned) or "error" (rejected)
    webhooks,   \* names of the webhooks of the guild text channel, in creation order
    created,    \* number of webhooks the calls have created so far (history)
    bot         \* chan.client.user.bot

\* updatePresence
VARIABLES
    ppc,            \* where the updatePresence call stands
    puppet,         \* whether app.puppets[puppetId] exists
    presence,       \* the presence argument
    statusMsg,      \* the local statusMsg
    presenceCalls,  \* the values setUserPresence was called with, in order
    statusCalls     \* the values setUserStatus was called with, in order

\* getDiscordChan / getUserById
VARIABLES
    rpc,        \* where the resolver call stands, and which one it was
    id,         \* the id argument
    tables,     \* what the client's tables hold under id and under the user id in it
    found,      \* the value the call returned (or that it rejected)
    consulted   \* the lookups the call made, in order

\* iterateGuildStructure
VARIABLES
    wpc,        \* where the iterateGuildStructure call stands
    guild,      \* the guild argument, with what the store says is bridged
    calls,      \* the callbacks invoked, in order
    walked      \* "pending", "ok" (returned) or "error" (a callback rejected)

dvars == << pc, args, hook, warns, lookups, tried, out, result, webhooks, created, bot >>

pvars == << ppc, puppet, presence, statusMsg, presenceCalls, statusCalls >>

rvars == << rpc, id, tables, found, consulted >>

wvars == << wpc, guild, calls, walked >>

vars == << dvars, pvars, rvars, wvars >>

\* ------------------------------------------------------------------- text
Null == << "<null>" >>

Truthy(t) == t # Null /\ t # << >>

\* `x || undefined`
OrUndefined(t) == IF Truthy(t) THEN t ELSE Null

\* String.prototype.startsWith
StartsWith(t, p) == Len(t) >= Len(p) /\ SubSeq(t, 1, Len(p)) = p

\* The backtick character (a string of the model cannot hold one).
BT == "[backtick]"

\* The characters the remote network reads as markup.
MarkupChars == { "*", "_", "~", "\\", BT }

RECURSIVE EscapeFrom(_, _)
EscapeFrom(s, i) ==
    IF i > Len(s) THEN << >>
    ELSE (IF s[i] \in MarkupChars THEN << "\\", s[i] >> ELSE << s[i] >>)
         \o EscapeFrom(s, i + 1)

\* discordEscape: the markup parser's plain rendering of the body, every
\* markup character neutralised by a backslash.
discordEscape(s) == EscapeFrom(s, 1)

\* ---------------------------------------------------------- delivery input
Calls == 1 .. NCalls

ChanKinds == { "TextChannel", "DMChannel", "GroupDMChannel" }

DisplayNames == { << "a" >>, << "*", "b", "_" >> }

NoUser == [present |-> FALSE, displayname |-> Null, avatarUrl |-> Null, mxid |-> Null]

SendingUsers ==
    [present : {TRUE}, displayname : DisplayNames,
     avatarUrl : {Null, << "av" >>}, mxid : {<< "@", "m" >>}]

NoReply == [present |-> FALSE, authorName |-> Null, description |-> Null]

ReplyEmbeds ==
    [present : {TRUE}, authorName : {<< "r" >>}, description : {Null, << >>, << "q" >>}]

NoField == Null

StringMsgs ==
    [type : {"string"}, text : {<< "h", "*" >>}, title : {NoField}, image : {NoField},
     filename : {NoField}, url : {NoField}, isImage : {FALSE}]

EmbedMsgs ==
    [type : {"MessageEmbed"}, text : {NoField}, title : {Null, << "t", "_" >>},
     image : {Null, << "i", "m", "g" >>},
     filename : {NoField}, url : {NoField}, isImage : {FALSE}]

FileMsgs ==
    [type : {"file"}, text : {NoField}, title : {NoField}, image : {NoField},
     filename : {<< "f", "_" >>}, url : {<< "u", "r", "l" >>}, isImage : BOOLEAN]

Msgs == StringMsgs \cup EmbedMsgs \cup FileMsgs

SendArgs ==
    [chan : ChanKinds, msg : Msgs, asUser : {NoUser} \cup SendingUsers,
     replyEmbed : {NoReply} \cup ReplyEmbeds]

NoMsg ==
    [type |-> "none", text |-> NoField, title |-> NoField, image |-> NoField,
     filename |-> NoField, url |-> NoField, isImage |-> FALSE]

NoArgs == [chan |-> "none", msg |-> NoMsg, asUser |-> NoUser, replyEmbed |-> NoReply]

NoOut == [mech |-> "none"]

NoLookups == [fetch |-> 0, create |-> 0]

DeliverIdle ==
    /\ pc = [c \in Calls |-> "idle"]
    /\ args = [c \in Calls |-> NoArgs]
    /\ hook = [c \in Calls |-> 0]
    /\ warns = [c \in Calls |-> 0]
    /\ lookups = [c \in Calls |-> NoLookups]
    /\ tried = [c \in Calls |-> << >>]
    /\ out = [c \in Calls |-> NoOut]
    /\ result = [c \in Calls |-> "pending"]
    /\ created = 0

InitialWebhooks == { << >>, << "other" >>, << "_matrix" >>, << "other", "_matrix" >> }

DeliverInit ==
    /\ DeliverIdle
    /\ webhooks \in InitialWebhooks
    /\ bot \in BOOLEAN

\* -------------------------------------------------------- sendToDiscord
\* sendThing: the payload itself, or a MessageAttachment built from a file.
SendThing(msg) ==
    IF msg.type \in {"string", "MessageEmbed"} THEN msg
    ELSE [type |-> "MessageAttachment", filename |-> msg.filename]

\* (await chan.fetchWebhooks()).find((h) => h.name === "_matrix") || null
RECURSIVE FindFrom(_, _, _)
FindFrom(hooks, name, i) ==
    IF i > Len(hooks) THEN 0
    ELSE IF hooks[i] = name THEN i
    ELSE FindFrom(hooks, name, i + 1)

FindHook(hooks) == FindFrom(hooks, "_matrix", 1)

\* A send is handed to the remote network and either returns or rejects;
\* nothing catches the rejection, so the call ends with it.
Finish(c, sent, ok) ==
    /\ tried' = [tried EXCEPT ![c] = Append(@, sent.mech)]
    /\ out' = [out EXCEPT ![c] = sent]
    /\ result' = [result EXCEPT ![c] = IF ok THEN "ok" ELSE "error"]
    /\ pc' = [pc EXCEPT ![c] = "done"]

\* A caller invokes sendToDiscord(chan, msg, asUser, replyEmbed).
Begin(c, a) ==
    /\ pc[c] = "idle"
    /\ args' = [args EXCEPT ![c] = a]
    /\ pc' = [pc EXCEPT ![c] = "called"]
    /\ UNCHANGED << hook, warns, lookups, tried, out, result, webhooks, created, bot, pvars, rvars, wvars >>

\* if (!asUser): send as the acting account.
DirectSent(c) ==
    [mech |-> "direct",
     content |-> SendThing(args[c].msg),
     reply |-> args[c].replyEmbed.present /\ bot]

SendDirect(c) ==
    /\ pc[c] = "called"
    /\ ~args[c].asUser.present
    /\ \E ok \in BOOLEAN : Finish(c, DirectSent(c), ok)
    /\ UNCHANGED << args, hook, warns, lookups, webhooks, created, bot, pvars, rvars, wvars >>

\* Mutant: the lookup is made whether or not there is a sending identity.
FetchWebhooksNoUserCheck(c) ==
    /\ pc[c] = "called"
    /\ args[c].chan = "TextChannel"
    /\ lookups' = [lookups EXCEPT ![c].fetch = @ + 1]
    /\ hook' = [hook EXCEPT ![c] = FindHook(webhooks)]
    /\ pc' = [pc EXCEPT ![c] = IF FindHook(webhooks) # 0 THEN "hook" ELSE "create"]
    /\ UNCHANGED << args, warns, tried, out, result, webhooks, created, bot, pvars, rvars, wvars >>

\* Mutant: the lookup is made on every kind of channel.
FetchWebhooksAnyChan(c) ==
    /\ pc[c] = "called"
    /\ args[c].asUser.present
    /\ lookups' = [lookups EXCEPT ![c].fetch = @ + 1]
    /\ hook' = [hook EXCEPT ![c] = FindHook(webhooks)]
    /\ pc' = [pc EXCEPT ![c] = IF FindHook(webhooks) # 0 THEN "hook" ELSE "create"]
    /\ UNCHANGED << args, warns, tried, out, result, webhooks, created, bot, pvars, rvars, wvars >>

\* Mutant: a failed lookup is caught on its own and the creation follows it.
FetchWebhooksThenCreate(c) ==
    /\ pc[c] = "called"
    /\ args[c].asUser.present
    /\ args[c].chan = "TextChannel"
    /\ lookups' = [lookups EXCEPT ![c].fetch = @ + 1]
    /\ \E ok \in BOOLEAN :
         IF ok
         THEN /\ hook' = [hook EXCEPT ![c] = FindHook(webhooks)]
              /\ pc' = [pc EXCEPT ![c] = IF FindHook(webhooks) # 0 THEN "hook" ELSE "create"]
              /\ UNCHANGED warns
         ELSE /\ warns' = [warns EXCEPT ![c] = @ + 1]
              /\ pc' = [pc EXCEPT ![c] = "create"]
              /\ UNCHANGED hook
    /\ UNCHANGED << args, tried, out, result, webhooks, created, bot, pvars, rvars, wvars >>

\* chan instanceof TextChannel: look the "_matrix" webhook up.
FetchWebhooks(c) ==
    /\ pc[c] = "called"
    /\ args[c].asUser.present
    /\ args[c].chan = "TextChannel"
    /\ lookups' = [lookups EXCEPT ![c].fetch = @ + 1]
    /\ \E ok \in BOOLEAN :
         IF ok
         THEN /\ hook' = [hook EXCEPT ![c] = FindHook(webhooks)]
              /\ pc' = [pc EXCEPT ![c] = IF FindHook(webhooks) # 0 THEN "hook" ELSE "create"]
              /\ UNCHANGED warns
         ELSE \* catch (err): log.warn("Missing webhook permissions")
              /\ warns' = [warns EXCEPT ![c] = @ + 1]
              /\ pc' = [pc EXCEPT ![c] = "relay"]
              /\ UNCHANGED hook
    /\ UNCHANGED << args, tried, out, result, webhooks, created, bot, pvars, rvars, wvars >>

\* Mutant: a failed creation is not caught and rejects the call.
CreateWebhookUncaught(c) ==
    /\ pc[c] = "create"
    /\ lookups' = [lookups EXCEPT ![c].create = @ + 1]
    /\ \E ok \in BOOLEAN :
         IF ok /\ Len(webhooks) < MaxHooks
         THEN /\ webhooks' = Append(webhooks, "_matrix")
              /\ created' = created + 1
              /\ hook' = [hook EXCEPT ![c] = Len(webhooks) + 1]
              /\ pc' = [pc EXCEPT ![c] = "hook"]
              /\ UNCHANGED result
         ELSE /\ result' = [result EXCEPT ![c] = "error"]
              /\ pc' = [pc EXCEPT ![c] = "done"]
              /\ UNCHANGED << hook, webhooks, created >>
    /\ UNCHANGED << args, warns, tried, out, bot, pvars, rvars, wvars >>

\* Mutant: the creation looks the webhook up again and reuses one that
\* another call created in the meantime.
CreateWebhookRechecked(c) ==
    /\ pc[c] = "create"
    /\ lookups' = [lookups EXCEPT ![c].create = @ + 1]
    /\ \E ok \in BOOLEAN :
         IF FindHook(webhooks) # 0
         THEN /\ hook' = [hook EXCEPT ![c] = FindHook(webhooks)]
              /\ pc' = [pc EXCEPT ![c] = "hook"]
              /\ UNCHANGED << warns, webhooks, created >>
         ELSE IF ok /\ Len(webhooks) < MaxHooks
         THEN /\ webhooks' = Append(webhooks, "_matrix")
              /\ created' = created + 1
              /\ hook' = [hook EXCEPT ![c] = Len(webhooks) + 1]
              /\ pc' = [pc EXCEPT ![c] = "hook"]
              /\ UNCHANGED warns
         ELSE /\ warns' = [warns EXCEPT ![c] = @ + 1]
              /\ pc' = [pc EXCEPT ![c] = "relay"]
              /\ UNCHANGED << hook, webhooks, created >>
    /\ UNCHANGED << args, tried, out, result, bot, pvars, rvars, wvars >>

\* if (!hook): chan.createWebhook("_matrix", ...); the remote network
\* refuses a webhook beyond its per-channel limit.
CreateWebhook(c) ==
    /\ pc[c] = "create"
    /\ lookups' = [lookups EXCEPT ![c].create = @ + 1]
    /\ \E ok \in BOOLEAN :
         IF ok /\ Len(webhooks) < MaxHooks
         THEN /\ webhooks' = Append(webhooks, "_matrix")
              /\ created' = created + 1
              /\ hook' = [hook EXCEPT ![c] = Len(webhooks) + 1]
              /\ pc' = [pc EXCEPT ![c] = "hook"]
              /\ UNCHANGED warns
         ELSE \* catch (err): log.warn("Unable to create \"_matrix\" webhook")
              /\ warns' = [warns EXCEPT ![c] = @ + 1]
              /\ pc' = [pc EXCEPT ![c] = "relay"]
              /\ UNCHANGED << hook, webhooks, created >>
    /\ UNCHANGED << args, tried, out, result, bot, pvars, rvars, wvars >>

\* Mutant: the payload embed is pushed behind the reply context.
HookEmbedsReplyFirst(a) ==
    (IF a.replyEmbed.present THEN << "replyEmbed" >> ELSE << >>)
    \o (IF a.msg.type = "MessageEmbed" THEN << "msg" >> ELSE << >>)

\* if (hook): hook.send(sendThing, hookOpts) or hook.send(hookOpts).
HookEmbeds(a) ==
    (IF a.msg.type = "MessageEmbed" THEN << "msg" >> ELSE << >>)
    \o (IF a.replyEmbed.present THEN << "replyEmbed" >> ELSE << >>)

HookSent(c) ==
    [mech |-> "webhook",
     content |-> IF args[c].msg.type = "string" THEN args[c].msg.text ELSE Null,
     username |-> args[c].asUser.displayname,
     avatarURL |-> OrUndefined(args[c].asUser.avatarUrl),
     embeds |-> HookEmbeds(args[c]),
     files |-> IF args[c].msg.type = "file" THEN << SendThing(args[c].msg) >> ELSE << >>]

SendHook(c) ==
    /\ pc[c] = "hook"
    /\ \E ok \in BOOLEAN : Finish(c, HookSent(c), ok)
    /\ UNCHANGED << args, hook, warns, lookups, webhooks, created, bot, pvars, rvars, wvars >>

\* Mutant: the relays below the webhook are open to a call that holds one.
FallthroughWithHook(c) ==
    \/ pc[c] \in {"relay", "hook"}
    \/ pc[c] = "called" /\ args[c].asUser.present /\ args[c].chan # "TextChannel"

\* No webhook was obtained, or the channel is no guild text channel.
Fallthrough(c) ==
    \/ pc[c] = "relay"
    \/ pc[c] = "called" /\ args[c].asUser.present /\ args[c].chan # "TextChannel"

\* if (chan.client.user.bot): the synthetic embed.
EmbedTitle(msg) ==
    IF msg.type = "MessageEmbed" /\ Truthy(msg.image) THEN msg.title
    ELSE IF msg.type = "file" /\ msg.isImage THEN msg.filename
    ELSE Null

EmbedImage(msg) ==
    IF msg.type = "MessageEmbed" /\ Truthy(msg.image) THEN msg.image
    ELSE IF msg.type = "file" /\ msg.isImage THEN msg.url
    ELSE Null

EmbedDescription(msg) ==
    IF msg.type = "string" THEN msg.text
    ELSE IF msg.type = "file" /\ ~msg.isImage
    THEN << "Uploaded a file ", BT >> \o discordEscape(msg.filename) \o << BT, ": " >> \o msg.url
    ELSE Null

EmbedFields(replyEmbed) ==
    IF replyEmbed.present /\ Truthy(replyEmbed.description)
    THEN << [name |-> "Replying to", value |-> replyEmbed.authorName],
            [name |-> "Reply text", value |-> replyEmbed.description] >>
    ELSE << >>

EmbedAuthor(asUser) ==
    [name |-> asUser.displayname,
     iconURL |-> OrUndefined(asUser.avatarUrl),
     url |-> << "https://matrix.to/#/" >> \o asUser.mxid]

EmbedSent(c) ==
    [mech |-> "embed",
     title |-> EmbedTitle(args[c].msg),
     image |-> EmbedImage(args[c].msg),
     description |-> EmbedDescription(args[c].msg),
     fields |-> EmbedFields(args[c].replyEmbed),
     author |-> EmbedAuthor(args[c].asUser)]

SendEmbed(c) ==
    /\ Fallthrough(c)
    /\ bot
    /\ \E ok \in BOOLEAN : Finish(c, EmbedSent(c), ok)
    /\ UNCHANGED << args, hook, warns, lookups, webhooks, created, bot, pvars, rvars, wvars >>

\* Nothing else applies: prefix the escaped display name.
\* `${msg.image}` renders the image object, not its url.
ObjectToString == << "[object Object]" >>

Bold(displayname) == << "*", "*" >> \o displayname \o << "*", "*" >>

Uploaded(displayname, filename, what) ==
    Bold(displayname) \o << " uploaded a file ", BT >> \o filename \o << BT, ": " >> \o what

PrefixedBody(msg, displayname) ==
    IF msg.type = "string" THEN Bold(displayname) \o << ":", " " >> \o msg.text
    ELSE IF msg.type = "MessageEmbed"
    THEN (IF Truthy(msg.image)
          THEN (IF Truthy(msg.title)
                THEN Uploaded(displayname, discordEscape(msg.title), ObjectToString)
                ELSE Bold(displayname) \o << " uploaded a file: " >> \o ObjectToString)
          ELSE << >>)
    ELSE Uploaded(displayname, discordEscape(msg.filename), msg.url)

\* Mutant: the quote is appended for every reply context.
ReplySuffixIfPresent(replyEmbed) ==
    IF replyEmbed.present
    THEN << "\n", ">", ">", ">", " " >> \o replyEmbed.description
    ELSE << >>

ReplySuffix(replyEmbed) ==
    IF replyEmbed.present /\ Truthy(replyEmbed.description)
    THEN << "\n", ">", ">", ">", " " >> \o replyEmbed.description
    ELSE << >>

\* Mutant: the display name is prefixed as it is.
SendMsgRaw(a) ==
    PrefixedBody(a.msg, a.asUser.displayname)
    \o (IF a.replyEmbed.present /\ Truthy(a.replyEmbed.description)
        THEN << "\n", ">", ">", ">", " " >> \o a.replyEmbed.description
        ELSE << >>)

SendMsg(a) ==
    PrefixedBody(a.msg, discordEscape(a.asUser.displayname)) \o ReplySuffix(a.replyEmbed)

PrefixedSent(c) == [mech |-> "prefixed", text |-> SendMsg(args[c])]

SendPrefixed(c) ==
    /\ Fallthrough(c)
    /\ ~bot
    /\ \E ok \in BOOLEAN : Finish(c, PrefixedSent(c), ok)
    /\ UNCHANGED << args, hook, warns, lookups, webhooks, created, bot, pvars, rvars, wvars >>

\* The caller takes the returned message (or the rejection); the call's
\* locals are gone.
Return(c) ==
    /\ pc[c] = "done"
    /\ pc' = [pc EXCEPT ![c] = "idle"]
    /\ args' = [args EXCEPT ![c] = NoArgs]
    /\ hook' = [hook EXCEPT ![c] = 0]
    /\ warns' = [warns EXCEPT ![c] = 0]
    /\ lookups' = [lookups EXCEPT ![c] = NoLookups]
    /\ tried' = [tried EXCEPT ![c] = << >>]
    /\ out' = [out EXCEPT ![c] = NoOut]
    /\ result' = [result EXCEPT ![c] = "pending"]
    /\ UNCHANGED << webhooks, created, bot, pvars, rvars, wvars >>

InFlight(c) == pc[c] # "idle"

\* A caller that awaits each sendToDiscord before the next one.  Calls
\* that overlap differ from these only in the webhooks they find.
BeginSerial(c) ==
    /\ \A d \in Calls : ~InFlight(d)
    /\ \E a \in SendArgs : Begin(c, a)

DeliverStep(c) ==
    \/ SendDirect(c)
    \/ FetchWebhooks(c)
    \/ CreateWebhook(c)
    \/ SendHook(c)
    \/ SendEmbed(c)
    \/ SendPrefixed(c)
    \/ Return(c)

\* ------------------------------------------------------- updatePresence
UpperCase ==
    << "A", "B", "C", "D", "E", "F", "G", "H", "I", "J", "K", "L", "M",
       "N", "O", "P", "Q", "R", "S", "T", "U", "V", "W", "X", "Y", "Z" >>

LowerCase ==
    << "a", "b", "c", "d", "e", "f", "g", "h", "i", "j", "k", "l", "m",
       "n", "o", "p", "q", "r", "s", "t", "u", "v", "w", "x", "y", "z" >>

IndexIn(letters, ch) ==
    IF \E i \in 1 .. Len(letters) : letters[i] = ch
    THEN CHOOSE i \in 1 .. Len(letters) : letters[i] = ch
    ELSE 0

ToLowerChar(ch) == IF IndexIn(UpperCase, ch) = 0 THEN ch ELSE LowerCase[IndexIn(UpperCase, ch)]

ToUpperChar(ch) == IF IndexIn(LowerCase, ch) = 0 THEN ch ELSE UpperCase[IndexIn(LowerCase, ch)]

ToLowerCase(t) == [i \in 1 .. Len(t) |-> ToLowerChar(t[i])]

\* lower.charAt(0).toUpperCase() + lower.substring(1)
Capitalize(lower) ==
    IF lower = << >> THEN << >> ELSE << ToUpperChar(lower[1]) >> \o Tail(lower)

\* statusParts.join(" ")
RECURSIVE JoinFrom(_, _)
JoinFrom(parts, i) ==
    IF i > Len(parts) THEN << >>
    ELSE IF i = Len(parts) THEN parts[i]
    ELSE parts[i] \o << " " >> \o JoinFrom(parts, i + 1)

Join(parts) == JoinFrom(parts, 1)

CUSTOM_STATUS == << "C", "U", "S", "T", "O", "M", "_", "S", "T", "A", "T", "U", "S" >>

PLAYING == << "P", "L", "A", "Y", "I", "N", "G" >>

\* An activity: its type, its name, its emoji's name (Null: no emoji) and
\* its state.
Activities ==
    [type : {PLAYING}, name : {Null, << "g" >>}, emoji : {Null}, state : {Null}]
    \cup [type : {CUSTOM_STATUS}, name : {Null}, emoji : {Null, << "e" >>},
          state : {Null, << "s" >>}]

ActivityLists == UNION { [1 .. n -> Activities] : n \in 0 .. MaxActivities }

Statuses == { "online", "idle", "dnd", "offline" }

NoPresence == [present |-> FALSE, user |-> FALSE, status |-> "offline", activities |-> << >>]

Presences ==
    [present : {TRUE}, user : BOOLEAN, status : Statuses, activities : ActivityLists]

\* The object literal indexed by presence.status.
MatrixPresence(status) ==
    CASE status = "online" -> "online"
      [] status = "idle" -> "unavailable"
      [] status = "dnd" -> "unavailable"
      [] status = "offline" -> "offline"

\* The body of the loop for one activity: statusParts.join(" ").
StatusParts(activity) ==
    IF activity.type # CUSTOM_STATUS
    THEN << Capitalize(ToLowerCase(activity.type)) >>
         \o (IF Truthy(activity.name) THEN << activity.name >> ELSE << >>)
    ELSE (IF activity.emoji # Null THEN << activity.emoji >> ELSE << >>)
         \o (IF Truthy(activity.state) THEN << activity.state >> ELSE << >>)

Rendering(activity) == Join(StatusParts(activity))

\* for (const activity of presence.activities): from activity i on, with
\* statusMsg = msg.  `returned` tells that the loop left the function.
RECURSIVE ActivityLoop(_, _, _)
ActivityLoop(activities, i, msg) ==
    IF i > Len(activities) THEN [returned |-> FALSE, statusMsg |-> msg]
    ELSE IF msg # << >> THEN [returned |-> TRUE, statusMsg |-> msg]
    ELSE ActivityLoop(activities, i + 1, Rendering(activities[i]))

PresenceIdle ==
    /\ ppc = "idle"
    /\ puppet = FALSE
    /\ presence = NoPresence
    /\ statusMsg = << >>
    /\ presenceCalls = << >>
    /\ statusCalls = << >>

\* A caller invokes updatePresence(puppetId, presence).
CallUpdatePresence ==
    /\ ppc = "idle"
    /\ puppet' \in BOOLEAN
    /\ presence' \in {NoPresence} \cup Presences
    /\ ppc' = "called"
    /\ UNCHANGED << statusMsg, presenceCalls, statusCalls, dvars, rvars, wvars >>

\* From the entry to the first await: the guards, the loop, setUserPresence.
UpdatePresence ==
    /\ ppc = "called"
    /\ IF ~puppet \/ ~presence.present \/ ~presence.user
       THEN /\ ppc' = "done"
            /\ UNCHANGED << statusMsg, presenceCalls >>
       ELSE LET loop == ActivityLoop(presence.activities, 1, << >>)
            IN  /\ statusMsg' = loop.statusMsg
                /\ IF loop.returned
                   THEN /\ ppc' = "done"
                        /\ UNCHANGED presenceCalls
                   ELSE /\ presenceCalls' =
                              Append(presenceCalls, MatrixPresence(presence.status))
                        /\ ppc' = "status"
    /\ UNCHANGED << puppet, presence, statusCalls, dvars, rvars, wvars >>

\* if (statusMsg) await setUserStatus(remoteUser, statusMsg)
SetUserStatus ==
    /\ ppc = "status"
    /\ statusCalls' = IF statusMsg # << >> THEN Append(statusCalls, statusMsg) ELSE statusCalls
    /\ ppc' = "done"
    /\ UNCHANGED << puppet, presence, statusMsg, presenceCalls, dvars, rvars, wvars >>

PresenceReturn ==
    /\ ppc = "done"
    /\ ppc' = "idle"
    /\ puppet' = FALSE
    /\ presence' = NoPresence
    /\ statusMsg' = << >>
    /\ presenceCalls' = << >>
    /\ statusCalls' = << >>
    /\ UNCHANGED << dvars, rvars, wvars >>

\* ------------------------------------------- getDiscordChan, getUserById
\* Ids are texts of characters.  The tables of the client are modelled at
\* the keys the call can ask for: the entry of client.channels and of every
\* guild's channels under the id, whether a guild has a member with the
\* looked-up user id, whether the friends list has it, and what
\* client.users.fetch does for it.
DMPrefix == << "d", "m", "-" >>

RequestIds == { << "4", "2" >>, << "d", "m" >>, << "d", "m", "-" >>, << "d", "m", "-", "7" >> }

CachedKinds == { "none", "TextChannel", "GroupDMChannel", "DMChannel" }

GuildChannelKinds == { "none", "TextChannel", "VoiceChannel" }

Guilds == [channel : GuildChannelKinds, member : BOOLEAN]

GuildLists == UNION { [1 .. n -> Guilds] : n \in 0 .. MaxGuilds }

FetchOutcomes == { "user", "null", "raise" }

Tables ==
    [cache : CachedKinds, guilds : GuildLists, friend : BOOLEAN, fetch : FetchOutcomes]

NoTables == [cache |-> "none", guilds |-> << >>, friend |-> FALSE, fetch |-> "null"]

NotFound == [tag |-> "null"]

Rejected == [tag |-> "raise"]

NothingYet == [tag |-> "none"]

\* guild.members.find((m) => m.user.id === id) over the guilds from i on: the
\* first guild that has the member, 0 if there is none.
RECURSIVE FirstMember(_, _)
FirstMember(guilds, i) ==
    IF i > Len(guilds) THEN 0
    ELSE IF guilds[i].member THEN i
    ELSE FirstMember(guilds, i + 1)

\* c && c instanceof Discord.TextChannel over the guilds from i on.
RECURSIVE FirstTextChannel(_, _)
FirstTextChannel(guilds, i) ==
    IF i > Len(guilds) THEN 0
    ELSE IF guilds[i].channel = "TextChannel" THEN i
    ELSE FirstTextChannel(guilds, i + 1)

\* The number of guilds a loop that stops at guild g (0: never) has visited.
Visited(guilds, g) == IF g = 0 THEN Len(guilds) ELSE g

Times(n, what) == [i \in 1 .. n |-> what]

\* Mutant: the friends list is asked before the guilds.
getUserByIdFriendsFirst(t) ==
    LET g == FirstMember(t.guilds, 1)
    IN  IF t.friend THEN [tag |-> "user", from |-> "friends", guild |-> 0]
        ELSE IF g # 0 THEN [tag |-> "user", from |-> "guild.members", guild |-> g]
        ELSE IF t.fetch = "raise" THEN Rejected
        ELSE IF t.fetch = "user" THEN [tag |-> "user", from |-> "users.fetch", guild |-> 0]
        ELSE NotFound

\* getUserById: guild members, then friends, then users.fetch.
getUserById(t) ==
    LET g == FirstMember(t.guilds, 1)
    IN  IF g # 0 THEN [tag |-> "user", from |-> "guild.members", guild |-> g]
        ELSE IF t.friend THEN [tag |-> "user", from |-> "friends", guild |-> 0]
        ELSE IF t.fetch = "raise" THEN Rejected
        ELSE IF t.fetch = "user" THEN [tag |-> "user", from |-> "users.fetch", guild |-> 0]
        ELSE NotFound

UserLookups(t) ==
    LET g == FirstMember(t.guilds, 1)
    IN  Times(Visited(t.guilds, g), "guild.members")
        \o (IF g = 0 THEN << "friends" >> ELSE << >>)
        \o (IF g = 0 /\ ~t.friend THEN << "users.fetch" >> ELSE << >>)

\* Mutant: whatever the cache holds under the id is returned.
CachedChannelAnyKind(t) ==
    IF t.cache # "none"
    THEN [tag |-> "chan", kind |-> t.cache, from |-> "client.channels", guild |-> 0]
    ELSE NotFound

\* client.channels.get(id), kept if it is a group or a text channel.
CachedChannel(t) ==
    IF t.cache \in {"GroupDMChannel", "TextChannel"}
    THEN [tag |-> "chan", kind |-> t.cache, from |-> "client.channels", guild |-> 0]
    ELSE NotFound

\* for (const guild of client.guilds.array()): guild.channels.get(id)
GuildChannel(t) ==
    LET g == FirstTextChannel(t.guilds, 1)
    IN  IF g # 0
        THEN [tag |-> "chan", kind |-> "TextChannel", from |-> "guild.channels", guild |-> g]
        ELSE NotFound

\* The DM branch: getUserById, then user.createDM() (taken on its
\* successful return: the branch is about the user resolution).
DMChannelOf(t) ==
    LET user == getUserById(t)
    IN  IF user.tag = "raise" THEN Rejected
        ELSE IF user.tag = "null" THEN NotFound
        ELSE [tag |-> "chan", kind |-> "DMChannel", from |-> "createDM", guild |-> 0,
              user |-> user]

getDiscordChan(t, chanId) ==
    IF ~StartsWith(chanId, DMPrefix)
    THEN (IF CachedChannel(t).tag = "chan" THEN CachedChannel(t) ELSE GuildChannel(t))
    ELSE DMChannelOf(t)

ChanLookups(t, chanId) ==
    IF ~StartsWith(chanId, DMPrefix)
    THEN << "client.channels" >>
         \o (IF CachedChannel(t).tag = "chan" THEN << >>
             ELSE Times(Visited(t.guilds, FirstTextChannel(t.guilds, 1)),
                        "guild.channels"))
    ELSE UserLookups(t)
         \o (IF getUserById(t).tag = "user" THEN << "createDM" >> ELSE << >>)

ResolveIdle ==
    /\ rpc = "idle"
    /\ id = << >>
    /\ tables = NoTables
    /\ found = NothingYet
    /\ consulted = << >>

ResolveInit ==
    /\ rpc = "idle"
    /\ id \in RequestIds
    /\ tables \in Tables
    /\ found = NothingYet
    /\ consulted = << >>

\* getDiscordChan(client, id), to its return or its rejection.
GetDiscordChan ==
    /\ rpc = "idle"
    /\ found' = getDiscordChan(tables, id)
    /\ consulted' = ChanLookups(tables, id)
    /\ rpc' = "done"
    /\ UNCHANGED << id, tables, dvars, pvars, wvars >>

\* getUserById(client, id), to its return or its rejection.
GetUserById ==
    /\ rpc = "idle"
    /\ found' = getUserById(tables)
    /\ consulted' = UserLookups(tables)
    /\ rpc' = "userDone"
    /\ UNCHANGED << id, tables, dvars, pvars, wvars >>

\* The parser callback getUser(id): the mxid, and the user's name if
\* getUserById finds the user.
getUser(t) ==
    LET user == getUserById(t)
    IN  IF user.tag = "raise" THEN Rejected
        ELSE [tag |-> "name", mxid |-> "mxid",
              name |-> IF user.tag = "user" THEN "username" ELSE "mxid"]

GetUser ==
    /\ rpc = "idle"
    /\ found' = getUser(tables)
    /\ consulted' = << "getMxidForUser" >> \o UserLookups(tables)
    /\ rpc' = "nameDone"
    /\ UNCHANGED << id, tables, dvars, pvars, wvars >>

\* ------------------------------------------------ iterateGuildStructure
\* guild.channels.array() is a sequence of channels; a channel's id is its
\* place in it.  parent is the id of the channel's category (0: parentID is
\* null), member is chan.members.has(client.user.id), bridged is
\* bridgedChannels.includes(chan.id); guild.bridged is
\* bridgedGuilds.includes(guild.id).
ChannelsOfLength(n) ==
    { chans \in [1 .. n ->
          [kind : {"CategoryChannel"}, parent : {0}, member : BOOLEAN, bridged : {FALSE}]
          \cup [kind : {"TextChannel"}, parent : 0 .. n, member : BOOLEAN, bridged : BOOLEAN]
          \cup [kind : {"VoiceChannel"}, parent : 0 .. n, member : {TRUE}, bridged : {TRUE}]] :
        \A i \in 1 .. n :
            chans[i].parent # 0 => chans[chans[i].parent].kind = "CategoryChannel" }

WalkedGuilds ==
    [bridged : BOOLEAN, channels : UNION { ChannelsOfLength(n) : n \in 0 .. MaxChannels }]

NoGuild == [bridged |-> FALSE, channels |-> << >>]

\* !(!bridgedGuilds.includes(guild.id) && !bridgedChannels.includes(chan.id))
IsBridged(g, chan) == g.bridged \/ chan.bridged

\* Mutant: a channel inside a category counts as uncategorized too.
IsLooseAnyParent(chan) == chan.kind = "TextChannel" /\ chan.member

\* !chan.parentID && chan instanceof TextChannel && chan.members.has(...)
IsLoose(chan) == chan.parent = 0 /\ chan.kind = "TextChannel" /\ chan.member

\* Mutant: a child of any kind counts.
QualifiesAnyKind(chan) == chan.member

\* chan instanceof TextChannel && chan.members.has(client.user.id)
Qualifies(chan) == chan.kind = "TextChannel" /\ chan.member

OnChannel(i) == [cb |-> "chanCallback", chan |-> i]

OnCategory(i) == [cb |-> "catCallback", chan |-> i]

\* Mutant: the category is announced before each of its children.
AnnounceAlways(doCat, cat) == << OnCategory(cat) >>

\* if (!doCat) { doCat = true; await catCallback(cat); }
Announce(doCat, cat) == IF ~doCat THEN << OnCategory(cat) >> ELSE << >>

\* The first loop, from channel i on.
RECURSIVE LooseFrom(_, _)
LooseFrom(g, i) ==
    IF i > Len(g.channels) THEN << >>
    ELSE (IF IsBridged(g, g.channels[i]) /\ IsLoose(g.channels[i])
          THEN << OnChannel(i) >> ELSE << >>)
         \o LooseFrom(g, i + 1)

\* for (const chan of cat.children.array()), from channel j on: the
\* children are the guild's channels whose parentID is the category's id.
RECURSIVE ChildrenFrom(_, _, _, _)
ChildrenFrom(g, cat, j, doCat) ==
    IF j > Len(g.channels) THEN << >>
    ELSE IF /\ g.channels[j].parent = cat
            /\ IsBridged(g, g.channels[j])
            /\ Qualifies(g.channels[j])
    THEN Announce(doCat, cat) \o << OnChannel(j) >> \o ChildrenFrom(g, cat, j + 1, TRUE)
    ELSE ChildrenFrom(g, cat, j + 1, doCat)

\* The second loop, from channel i on.
RECURSIVE CategoriesFrom(_, _)
CategoriesFrom(g, i) ==
    IF i > Len(g.channels) THEN << >>
    ELSE (IF g.channels[i].kind = "CategoryChannel" /\ g.channels[i].member
          THEN ChildrenFrom(g, i, 1, FALSE) ELSE << >>)
         \o CategoriesFrom(g, i + 1)

\* The callbacks of a walk in which none rejects.
WalkCalls(g) == LooseFrom(g, 1) \o CategoriesFrom(g, 1)

WalkIdle ==
    /\ wpc = "idle"
    /\ guild = NoGuild
    /\ calls = << >>
    /\ walked = "pending"

WalkInit ==
    /\ wpc = "idle"
    /\ guild \in WalkedGuilds
    /\ calls = << >>
    /\ walked = "pending"

\* iterateGuildStructure(puppetId, guild, catCallback, chanCallback): every
\* callback is awaited, and the walk ends with the first one that rejects.
IterateGuildStructure ==
    /\ wpc = "idle"
    /\ \E n \in 0 .. Len(WalkCalls(guild)), ok \in BOOLEAN :
         /\ ok => n = Len(WalkCalls(guild))
         /\ ~ok => n >= 1
         /\ calls' = SubSeq(WalkCalls(guild), 1, n)
         /\ walked' = IF ok THEN "ok" ELSE "error"
    /\ wpc' = "done"
    /\ UNCHANGED << guild, dvars, pvars, rvars >>

\* -------------------------------------------------------- specifications
Next == \E c \in Calls : BeginSerial(c) \/ DeliverStep(c)

Init == DeliverInit /\ PresenceIdle /\ ResolveIdle /\ WalkIdle

Spec == Init /\ [][Next]_vars

\* Overlapping calls: sendToDiscord suspends at every await, so a second call
\* may begin while the first is between its steps.  The calls address the
\* same guild text channel.
OverlapArgs ==
    [chan : {"TextChannel"}, msg : StringMsgs,
     asUser : {NoUser} \cup {u \in SendingUsers : u.displayname = << "a" >> /\ u.avatarUrl = Null},
     replyEmbed : {NoReply}]

BeginOverlap(c) == \E a \in OverlapArgs : Begin(c, a)

NextOverlap == \E c \in Calls : BeginOverlap(c) \/ DeliverStep(c)

SpecOverlap == Init /\ [][NextOverlap]_vars

NextPresence == CallUpdatePresence \/ UpdatePresence \/ SetUserStatus \/ PresenceReturn

InitPresence == DeliverIdle /\ webhooks = << >> /\ bot = FALSE /\ PresenceIdle /\ ResolveIdle /\ WalkIdle

SpecPresence == InitPresence /\ [][NextPresence]_vars

NextResolve == GetDiscordChan \/ GetUserById \/ GetUser

InitResolve == DeliverIdle /\ webhooks = << >> /\ bot = FALSE /\ PresenceIdle /\ ResolveInit /\ WalkIdle

SpecResolve == InitResolve /\ [][NextResolve]_vars

NextWalk == IterateGuildStructure

InitWalk ==
    DeliverIdle /\ webhooks = << >> /\ bot = FALSE /\ PresenceIdle /\ ResolveIdle /\ WalkInit

SpecWalk == InitWalk /\ [][NextWalk]_vars

\* ------------------------------------------------ claims on sendToDiscord
Last(q) == q[Len(q)]

Done(c) == pc[c] = "done"

Relayed(c) == args[c].asUser.present

\* The last mechanism whose precondition holds for call c.
LastApplicable(c) ==
    IF ~Relayed(c) THEN "direct" ELSE IF bot THEN "embed" ELSE "prefixed"

\* C1: an error reaches the caller of sendToDiscord only from the send of the
\* last mechanism whose precondition holds; a rejected webhook send alone
\* never does while the embed / prefixed mechanism is untried.
C1_ErrorOnlyFromLastMechanism ==
    \A c \in Calls :
        result[c] = "error" => Last(tried[c]) = LastApplicable(c)

\* No webhook could be obtained on a guild text channel: the listing failed,
\* or it found none and the creation failed.
WebhookDenied(c) ==
    /\ Relayed(c)
    /\ args[c].chan = "TextChannel"
    /\ hook[c] = 0
    /\ pc[c] \in {"relay", "done"}

\* C2: sending identity, bot account, guild text channel, webhook denied:
\* exactly one warning, nothing sent and no error from the webhook step, and
\* the message goes out as an embed whose author name is the display name.
C2_DeniedWebhookFallsToEmbed ==
    \A c \in Calls :
        WebhookDenied(c) /\ bot =>
            /\ warns[c] = 1
            /\ lookups[c] \in {[fetch |-> 1, create |-> 0], [fetch |-> 1, create |-> 1]}
            /\ pc[c] = "relay" => tried[c] = << >> /\ result[c] = "pending"
            /\ Done(c) =>
                /\ tried[c] = << "embed" >>
                /\ out[c].mech = "embed"
                /\ out[c].author.name = args[c].asUser.displayname

C2_Witness ==
    \E c \in Calls :
        /\ WebhookDenied(c) /\ bot /\ Done(c)
        /\ lookups[c].create = 1
        /\ result[c] = "ok"
        /\ out[c].mech = "embed"
        /\ args[c].asUser.displayname = << "*", "b", "_" >>

\* C3: without a sending identity no webhook is looked up or created, for
\* every channel kind, payload and reply context; the call ends in the
\* direct send.
C3_NoIdentityNoWebhook ==
    \A c \in Calls :
        InFlight(c) /\ ~Relayed(c) =>
            /\ lookups[c] = NoLookups
            /\ hook[c] = 0
            /\ pc[c] \in {"called", "done"}
            /\ Done(c) => tried[c] = << "direct" >> /\ out[c].mech = "direct"

C3_Witness ==
    \E c \in Calls :
        /\ Done(c) /\ ~Relayed(c)
        /\ args[c].chan = "TextChannel"
        /\ args[c].replyEmbed.present
        /\ webhooks = << >>
        /\ out[c].mech = "direct"

\* C4: with a sending identity on a DM or group channel no webhook is looked
\* up or created; the embed is sent if the acting account is a bot, the
\* prefixed plain text otherwise.
C4_NonGuildChannelSkipsWebhook ==
    \A c \in Calls :
        InFlight(c) /\ Relayed(c) /\ args[c].chan # "TextChannel" =>
            /\ lookups[c] = NoLookups
            /\ hook[c] = 0
            /\ warns[c] = 0
            /\ pc[c] \in {"called", "done"}
            /\ Done(c) =>
                /\ tried[c] = << IF bot THEN "embed" ELSE "prefixed" >>
                /\ out[c].mech = IF bot THEN "embed" ELSE "prefixed"

C4_Witness ==
    \E c \in Calls :
        /\ Done(c) /\ Relayed(c)
        /\ args[c].chan = "DMChannel"
        /\ ~bot
        /\ out[c].mech = "prefixed"

Contains(t, p) ==
    \E i \in 1 .. (Len(t) - Len(p) + 1) : SubSeq(t, i, i + Len(p) - 1) = p

Quoted(filename) == << BT >> \o filename \o << BT >>

\* The display name as the remote network receives it in a relayed send.
ShownName(sent) ==
    IF sent.mech = "webhook" THEN sent.username
    ELSE IF sent.mech = "embed" THEN sent.author.name
    ELSE SubSeq(sent.text, 3, Len(sent.text))

\* The payloads for which the prefixed relay writes a sender prefix at all.
HasPrefix(msg) == msg.type # "MessageEmbed" \/ Truthy(msg.image)

\* C5 (as claimed): in every relay path the display name handed to the
\* remote network is the escaped one, never the raw one.
C5_EveryRelayEscapes ==
    \A c \in Calls :
        Done(c) /\ Relayed(c) =>
            /\ out[c].mech \in {"webhook", "embed"} =>
                  ShownName(out[c]) = discordEscape(args[c].asUser.displayname)
            /\ out[c].mech = "prefixed" /\ HasPrefix(args[c].msg) =>
                  StartsWith(ShownName(out[c]), discordEscape(args[c].asUser.displayname))
            /\ out[c].mech = "embed" /\ args[c].msg.type = "file" /\ args[c].msg.isImage =>
                  out[c].title = discordEscape(args[c].msg.filename)

\* C5 (amended): Escape is applied where a name is put into message text: the
\* prefixed relay escapes the display name and the filename (attachment
\* filename or rich-embed title), the embed relay escapes the filename in the
\* description of a non-image attachment; the webhook username, the embed
\* author name and the embed title are the raw values.
C5_EscapeWhereInterpolated ==
    \A c \in Calls :
        Done(c) /\ Relayed(c) =>
            LET a == args[c]
                sent == out[c]
            IN  /\ sent.mech = "prefixed" /\ HasPrefix(a.msg) =>
                      StartsWith(sent.text, Bold(discordEscape(a.asUser.displayname)))
                /\ sent.mech = "prefixed" /\ a.msg.type = "file" =>
                      Contains(sent.text, Quoted(discordEscape(a.msg.filename)))
                /\ sent.mech = "prefixed" /\ a.msg.type = "MessageEmbed"
                      /\ Truthy(a.msg.image) /\ Truthy(a.msg.title) =>
                      Contains(sent.text, Quoted(discordEscape(a.msg.title)))
                /\ sent.mech = "embed" /\ a.msg.type = "file" /\ ~a.msg.isImage =>
                      Contains(sent.description, Quoted(discordEscape(a.msg.filename)))
                /\ sent.mech = "embed" =>
                      /\ sent.author.name = a.asUser.displayname
                      /\ a.msg.type = "file" /\ a.msg.isImage => sent.title = a.msg.filename
                      /\ a.msg.type = "MessageEmbed" /\ Truthy(a.msg.image) =>
                            sent.title = a.msg.title
                /\ sent.mech = "webhook" => sent.username = a.asUser.displayname

C5_Witness ==
    \E c \in Calls :
        /\ Done(c) /\ Relayed(c)
        /\ out[c].mech = "prefixed"
        /\ args[c].msg.type = "file"
        /\ args[c].asUser.displayname = << "*", "b", "_" >>
        /\ discordEscape(args[c].asUser.displayname) # args[c].asUser.displayname

\* C6: sending identity, non-bot account, no usable webhook, plain text: the
\* text sent is exactly **<escaped name>**: <body>, followed by the line
\* >>> <description> iff the reply context has a non-empty description.
C6_PrefixedPlainText ==
    \A c \in Calls :
        Done(c) /\ Relayed(c) /\ ~bot /\ hook[c] = 0 /\ args[c].msg.type = "string" =>
            LET a == args[c]
                quote == a.replyEmbed.present /\ a.replyEmbed.description \notin {Null, << >>}
            IN  /\ out[c].mech = "prefixed"
                /\ out[c].text =
                      << "*", "*" >> \o discordEscape(a.asUser.displayname)
                      \o << "*", "*", ":", " " >> \o a.msg.text
                      \o (IF quote
                          THEN << "\n", ">", ">", ">", " " >> \o a.replyEmbed.description
                          ELSE << >>)

C6_Witness ==
    \E c \in Calls :
        /\ Done(c) /\ Relayed(c) /\ ~bot /\ hook[c] = 0
        /\ args[c].chan = "TextChannel"
        /\ args[c].msg.type = "string"
        /\ args[c].replyEmbed.description = << "q" >>
        /\ args[c].asUser.displayname = << "*", "b", "_" >>
        /\ result[c] = "ok"

\* ----------------------------------------------- claims on updatePresence
PresenceGiven == puppet /\ presence.present /\ presence.user

ExpectedPresence ==
    [online |-> "online", idle |-> "unavailable", dnd |-> "unavailable",
     offline |-> "offline"]

\* C7: with a known puppet, a presence and its user, setUserPresence is
\* called exactly once with the mapped status, whatever the activity list;
\* otherwise it is not called.
C7_PresenceSetOnce ==
    ppc = "done" =>
        presenceCalls =
            IF PresenceGiven THEN << ExpectedPresence[presence.status] >> ELSE << >>

NonEmptyActivities ==
    { i \in 1 .. Len(presence.activities) : Rendering(presence.activities[i]) # << >> }

FirstNonEmpty == CHOOSE i \in NonEmptyActivities : \A j \in NonEmptyActivities : i <= j

\* C8: when some activity renders to a non-empty line, setUserStatus is
\* called with the rendering of the first such activity in list order, and
\* it is never called with an empty text.
C8_FirstNonEmptyActivityWins ==
    /\ \A i \in 1 .. Len(statusCalls) : statusCalls[i] # << >>
    /\ ppc = "done" /\ PresenceGiven /\ NonEmptyActivities # {} =>
          statusCalls = << Rendering(presence.activities[FirstNonEmpty]) >>

\* ------------------------------------------------ claims on getDiscordChan
IsDMId == StartsWith(id, DMPrefix)

UserResolvable ==
    \/ \E i \in 1 .. Len(tables.guilds) : tables.guilds[i].member
    \/ tables.friend
    \/ tables.fetch = "user"

ChannelTablesRead ==
    \E i \in 1 .. Len(consulted) : consulted[i] \in {"client.channels", "guild.channels"}

\* C9: for a DM-prefixed id getDiscordChan returns a DM channel iff the user
\* named by the rest of the id is resolved, and null otherwise; the channel
\* cache and the guilds' channel tables are not consulted.
C9_DMChannelIffUserResolved ==
    rpc = "done" /\ IsDMId =>
        /\ IF UserResolvable
           THEN found.tag = "chan" /\ found.kind = "DMChannel"
           ELSE found = NotFound
        /\ ~ChannelTablesRead

TextGuilds == { i \in 1 .. Len(tables.guilds) : tables.guilds[i].channel = "TextChannel" }

GuildTablesRead == Cardinality({ i \in 1 .. Len(consulted) : consulted[i] = "guild.channels" })

\* C10: for an id without the DM prefix getDiscordChan returns the cached
\* channel, without reading a guild, when the cache holds a group or text
\* channel under the id; otherwise the text channel of the first guild that
\* has one under the id; otherwise null.  It never rejects, and a cached
\* channel of another kind is never returned.
C10_CacheThenFirstGuild ==
    rpc = "done" /\ ~IsDMId =>
        /\ found.tag \in {"chan", "null"}
        /\ tables.cache \in {"GroupDMChannel", "TextChannel"} =>
              /\ found = [tag |-> "chan", kind |-> tables.cache,
                          from |-> "client.channels", guild |-> 0]
              /\ GuildTablesRead = 0
        /\ tables.cache \notin {"GroupDMChannel", "TextChannel"} /\ TextGuilds # {} =>
              /\ found.tag = "chan" /\ found.kind = "TextChannel"
              /\ found.from = "guild.channels"
              /\ found.guild \in TextGuilds
              /\ \A i \in TextGuilds : found.guild <= i
        /\ tables.cache \notin {"GroupDMChannel", "TextChannel"} /\ TextGuilds = {} =>
              found = NotFound
        /\ found.tag = "chan" /\ found.from = "client.channels" =>
              found.kind \in {"GroupDMChannel", "TextChannel"}

C10_Witness ==
    /\ rpc = "done"
    /\ id = << "d", "m" >>
    /\ tables.cache = "DMChannel"
    /\ Len(tables.guilds) = 2
    /\ tables.guilds[1].channel = "VoiceChannel"
    /\ tables.guilds[2].channel = "TextChannel"
    /\ found.tag = "chan" /\ found.guild = 2

\* --------------------------------------------------- claims on getUserById
MemberGuilds == { i \in 1 .. Len(tables.guilds) : tables.guilds[i].member }

Asked(what) == \E i \in 1 .. Len(consulted) : consulted[i] = what

SourceRank(what) ==
    CASE what = "guild.members" -> 1
      [] what = "friends" -> 2
      [] what = "users.fetch" -> 3

\* C11: getUserById asks the guild members, then the friends list, then
\* users.fetch, and stops at the first hit: a guild member wins over a
\* friends entry, and the fetch is made only when both miss.
C11_GuildThenFriendsThenFetch ==
    rpc = "userDone" =>
        /\ \A i, j \in 1 .. Len(consulted) :
              i < j => SourceRank(consulted[i]) <= SourceRank(consulted[j])
        /\ MemberGuilds # {} =>
              /\ found.tag = "user" /\ found.from = "guild.members"
              /\ found.guild \in MemberGuilds
              /\ \A i \in MemberGuilds : found.guild <= i
              /\ ~Asked("friends")
        /\ MemberGuilds = {} /\ tables.friend =>
              found = [tag |-> "user", from |-> "friends", guild |-> 0]
        /\ Asked("users.fetch") <=> (MemberGuilds = {} /\ ~tables.friend)
        /\ found.tag = "user" /\ found.from = "users.fetch" =>
              MemberGuilds = {} /\ ~tables.friend

C11_Witness ==
    /\ rpc = "userDone"
    /\ tables.friend
    /\ Len(tables.guilds) = 2
    /\ MemberGuilds = {2}
    /\ found = [tag |-> "user", from |-> "guild.members", guild |-> 2]

FetchFails == MemberGuilds = {} /\ ~tables.friend /\ tables.fetch = "raise"

\* C12: when no guild member and no friend has the id and users.fetch
\* rejects, getUserById returns null, getDiscordChan on the DM-prefixed id
\* returns null and the getUser callback names the user by the mxid; none
\* of them rejects.
C12_FailedFetchIsAMiss ==
    FetchFails =>
        /\ rpc = "userDone" => found = NotFound
        /\ rpc = "done" /\ IsDMId => found = NotFound
        /\ rpc = "nameDone" => found = [tag |-> "name", mxid |-> "mxid", name |-> "mxid"]

\* ----------------------------------------- claims on iterateGuildStructure
Chan(i) == guild.channels[i]

CatCalls == { p \in 1 .. Len(calls) : calls[p].cb = "catCallback" }

ChanCalls == { p \in 1 .. Len(calls) : calls[p].cb = "chanCallback" }

\* A child that is a text channel, has the acting account as member and
\* passes the allowlist.
GoodChild(cat, j) ==
    /\ Chan(j).parent = cat
    /\ Chan(j).kind = "TextChannel"
    /\ Chan(j).member
    /\ (guild.bridged \/ Chan(j).bridged)

\* C13: catCallback is never invoked for a category without a child that is
\* a text channel, has the acting account as member and passes the
\* allowlist, nor for a category the acting account is not a member of.
C13_NoCallbackForEmptyCategory ==
    \A p \in CatCalls :
        /\ Chan(calls[p].chan).kind = "CategoryChannel"
        /\ Chan(calls[p].chan).member
        /\ \E j \in 1 .. Len(guild.channels) : GoodChild(calls[p].chan, j)

C13_Witness ==
    /\ wpc = "done" /\ walked = "ok"
    /\ ChanCalls # {}
    /\ \E i \in 1 .. Len(guild.channels) :
         /\ Chan(i).kind = "CategoryChannel" /\ Chan(i).member
         /\ \E j \in 1 .. Len(guild.channels) :
              Chan(j).parent = i /\ Chan(j).kind = "VoiceChannel"
         /\ \A p \in CatCalls : calls[p].chan # i

C15_UncategorizedFirstNoRevisit ==
    /\ \A p, q \in ChanCalls : calls[p].chan = calls[q].chan => p = q
    /\ \A p \in ChanCalls :
          Chan(calls[p].chan).parent = 0 =>
              /\ \A q \in CatCalls : p < q
              /\ \A q \in ChanCalls : Chan(calls[q].chan).parent # 0 => p < q

C15_Witness ==
    /\ wpc = "done" /\ walked = "ok"
    /\ Len(calls) = 3
    /\ calls[1].cb = "chanCallback" /\ Chan(calls[1].chan).parent = 0
    /\ calls[2].cb = "catCallback" /\ calls[2].chan < calls[1].chan
    /\ calls[3].cb = "chanCallback" /\ Chan(calls[3].chan).parent = calls[2].chan

\* ---------------------------------------------------------------- C16
\* The positions of the webhooks named "_matrix" on the channel.
Reserved(hooks) == { i \in 1..Len(hooks) : hooks[i] = "_matrix" }

\* C16: when calls with a sending identity overlap on one guild text channel,
\* a call that found no "_matrix" webhook creates one whatever the channel
\* holds by the time it creates: every granted creation appends a new
\* "_matrix" webhook and uses it, with no lock and no second lookup, so two
\* calls that both passed the lookup leave two such webhooks (the witness).
C16_CreationNotRechecked ==
    [][\A c \in Calls :
          (pc[c] = "create" /\ pc'[c] = "hook") =>
              /\ webhooks' = Append(webhooks, "_matrix")
              /\ hook'[c] = Len(webhooks) + 1]_vars

C16_Witness ==
    \E c, d \in Calls :
        /\ c # d
        /\ args[c].asUser.present /\ args[d].asUser.present
        /\ lookups[c] = [fetch |-> 1, create |-> 1]
        /\ lookups[d] = [fetch |-> 1, create |-> 1]
        /\ hook[c] # 0 /\ hook[d] # 0 /\ hook[c] # hook[d]
        /\ webhooks[hook[c]] = "_matrix" /\ webhooks[hook[d]] = "_matrix"
        /\ Cardinality(Reserved(webhooks)) = 2
        /\ created = 2

\* ---------------------------------------------------------------- C17
\* The call's lookup returned (it did not fail) and the call is past it.
LookedUp(c) == lookups[c].fetch = 1 /\ warns[c] = 0 /\ hook[c] = 0 /\ pc[c] = "create"

\* A step in which call c attempts the creation.
CreationAttempt(c) == lookups'[c].create = lookups[c].create + 1

\* C17: when calls do not overlap, a creation is attempted only by a call
\* whose lookup succeeded and found no "_matrix" webhook, and never after a
\* failed lookup; at most one "_matrix" webhook is ever created and the
\* channel never holds two; a call that holds a webhook holds the one
\* "_matrix" webhook of the channel, created by it or by an earlier call.
C17_SerialCallsCreateOnce ==
    /\ [](/\ created <= 1
          /\ Cardinality(Reserved(webhooks)) <= 1
          /\ \A c \in Calls :
                /\ lookups[c].create <= 1
                /\ pc[c] = "create" => LookedUp(c) /\ FindHook(webhooks) = 0
                /\ hook[c] # 0 => Reserved(webhooks) = { hook[c] }
                /\ (lookups[c].fetch = 1 /\ warns[c] = 0 /\ Reserved(webhooks) # {}) =>
                       Reserved(webhooks) = { hook[c] })
    /\ [][\A c \in Calls :
            CreationAttempt(c) => LookedUp(c) /\ FindHook(webhooks) = 0]_vars

\* A later call reuses the webhook an earlier call created.
C17_Witness ==
    /\ created = 1
    /\ \E c \in Calls :
          /\ pc[c] = "done" /\ result[c] = "ok"
          /\ lookups[c] = [fetch |-> 1, create |-> 0]
          /\ hook[c] # 0 /\ Reserved(webhooks) = { hook[c] }
          /\ out[c].mech = "webhook"

\* ---------------------------------------------------------------- C18
\* The priority table: the mechanism the call's inputs select.
Mechanism(c) ==
    IF ~Relayed(c) THEN "direct"
    ELSE IF args[c].chan = "TextChannel" /\ hook[c] # 0 THEN "webhook"
    ELSE IF bot THEN "embed"
    ELSE "prefixed"

\* C18: a call performs at most one send, exactly one when it returns
\* successfully, and the send is by the mechanism of the priority table:
\* direct iff there is no sending identity; otherwise webhook iff the channel
\* is a guild text channel and a webhook was found or created; otherwise
\* embed iff the acting account is a bot; otherwise prefixed plain text.
C18_OneSendByPriority ==
    \A c \in Calls :
        /\ Len(tried[c]) <= 1
        /\ result[c] = "ok" => Len(tried[c]) = 1
        /\ Done(c) <=> tried[c] # << >>
        /\ tried[c] # << >> =>
              /\ tried[c] = << Mechanism(c) >>
              /\ out[c].mech = Mechanism(c)

C18_Witness ==
    \E c \in Calls :
        /\ Done(c) /\ result[c] = "ok"
        /\ Relayed(c) /\ args[c].chan = "TextChannel"
        /\ lookups[c] = [fetch |-> 1, create |-> 1] /\ hook[c] = 0
        /\ ~bot
        /\ tried[c] = << "prefixed" >>

\* ---------------------------------------------------------------- C19
\* C19: every text sent by the prefixed relay, for every payload variant
\* (plain text, rich embed with image and title, with image and no title,
\* with no image, file attachment), begins with **<escaped display name>**.
C19_PrefixedAlwaysNamesSender ==
    \A c \in Calls :
        Done(c) /\ out[c].mech = "prefixed" =>
            StartsWith(out[c].text,
                       << "*", "*" >> \o discordEscape(args[c].asUser.displayname)
                       \o << "*", "*" >>)

\* ---------------------------------------------------------------- C20
\* The webhook carries the sending identity's name and avatar.
SentAsIdentity(c) ==
    /\ out[c].username = args[c].asUser.displayname
    /\ out[c].avatarURL =
          (IF args[c].asUser.avatarUrl \in {Null, << >>} THEN Null
           ELSE args[c].asUser.avatarUrl)

\* C20 (as claimed): in the webhook relay a reply context, when present, is
\* the first element of the embed list for every payload variant, the
\* rich-embed payload included; the webhook's name and avatar are those of
\* the sending identity.
C20_ReplyLeadsEmbeds ==
    \A c \in Calls :
        Done(c) /\ out[c].mech = "webhook" =>
            /\ SentAsIdentity(c)
            /\ args[c].replyEmbed.present =>
                  /\ out[c].embeds # << >>
                  /\ out[c].embeds[1] = "replyEmbed"

\* C20 (amended): a reply context, when present, is in the embed list: it
\* is the only embed for a plain-text or file payload and follows the
\* payload embed for a rich-embed payload; without a reply context the list
\* holds the payload embed alone or nothing; the webhook's name and avatar
\* are those of the sending identity.
C20_ReplyAfterPayloadEmbed ==
    \A c \in Calls :
        Done(c) /\ out[c].mech = "webhook" =>
            LET isEmbed == args[c].msg.type = "MessageEmbed"
                reply == args[c].replyEmbed.present
            IN  /\ SentAsIdentity(c)
                /\ reply /\ ~isEmbed => out[c].embeds = << "replyEmbed" >>
                /\ reply /\ isEmbed => out[c].embeds = << "msg", "replyEmbed" >>
                /\ ~reply /\ isEmbed => out[c].embeds = << "msg" >>
                /\ ~reply /\ ~isEmbed => out[c].embeds = << >>

C20_Witness ==
    \E c \in Calls :
        /\ Done(c) /\ result[c] = "ok" /\ out[c].mech = "webhook"
        /\ args[c].msg.type = "MessageEmbed"
        /\ args[c].replyEmbed.present
        /\ Len(out[c].embeds) = 2
        /\ out[c].username = << "*", "b", "_" >>
        /\ out[c].avatarURL = << "av" >>

====
